---------------------------- MODULE Spec2Model ----------------------------
(***************************************************************************)
(* Model of the image handler: the Lambda handler and the Koa ossprocess   *)
(* path (request handling), FormatAction and WatermarkAction.              *)
(*                                                                         *)
(* Strings that the code takes apart (split, parseInt, base64, startsWith) *)
(* are sequences of one-character strings; strings that are only compared  *)
(* are TLA+ strings.  A JavaScript number is a record with a tag, so that  *)
(* NaN and undefined are values of their own.                              *)
(***************************************************************************)
EXTENDS Integers, Sequences, FiniteSets, TLC

VARIABLES
    \* WatermarkAction (format.ts:112-528)
    wmParams,   \* params: string[] handed to validate
    wmPc,       \* "input" | "validated" | "mixed"
    wmOut,      \* what validate did: [ok, opt, err]
    wmMixed,    \* what calculateMixedGravity returned
    gcArg,      \* argument of a direct gravityConvert call
    gcOut,      \* what gravityConvert did: [ok, val]
    \* FormatAction (format.ts:10-64)
    fmtParams,  \* params: string[] handed to process
    fmtPc,      \* "input" | "done"
    fmtCtx,     \* imagectx: IImageContext, [image, hasFeatures, autoWebp]
    fmtPages,   \* metadata.pages of the buffer the image renders to
    fmtNext,    \* the identity the next sharp(...) handle gets
    fmtOut,     \* what process did: [ok, err]
    \* request handling (index-lambda.ts, part_000)
    entry,      \* "lambda" | "koaGet" | "koaPost": who received the request
    request,    \* [route, uri, malformed, actions, auth, body]
    parsed,     \* what parseRequest returned: [ok, uri, actions]
    pc,         \* the step the request is at
    selected,   \* the name getProcessor was asked for, "none" before
    validated,  \* the actions (by position) whose validate has returned
    hooked,     \* the actions (by position) whose pre-fetch hook has run
    idx,        \* the position of the next action to process
    fetches,    \* how many times the Buffer Store was read
    engine,     \* how many times the Image Engine was called
    imagectx,   \* the image context of the request
    fetched,    \* the object the Buffer Store gave for the request's uri
    result,     \* what ossprocess returned: [data, type]
    err,        \* the error that was raised, as the handler saw it
    response,   \* the response: [statusCode, contentType, isBase64Encoded, body]
    \* a call into the watermark's rendering (format.ts:216-285, 357-439, 473-527)
    mkCall,     \* which function is called: "textsize" | "imgpos" | "text" | "img"
    mkPc,       \* "input" before the call, "done" after, "idle" when there is none
    mkOpt,      \* the options record the function is handed
    mkMeta,     \* metadata of the target image: [width, height]
    mkMark,     \* metadata of the watermark image: [width, height, hasAlpha]
    mkOut       \* what the call returned or composited

wmVars == <<wmParams, wmPc, wmOut, wmMixed, gcArg, gcOut>>
fmtVars == <<fmtParams, fmtPc, fmtCtx, fmtPages, fmtNext, fmtOut>>
reqVars == <<entry, request, parsed, pc, selected, validated, hooked, idx, fetches, engine,
             imagectx, fetched, result, err, response>>
mkVars == <<mkCall, mkPc, mkOpt, mkMeta, mkMark, mkOut>>
vars == <<wmVars, fmtVars, reqVars, mkVars>>

-----------------------------------------------------------------------------
(* Bounds of the model *)

\* longest token list handed to Watermark validate, the action name not counted
MaxTokens == 2
\* most pages (frames) of an image
MaxPages == 2
\* most action groups of a request
MaxGroups == 3
\* longest text handed to calculateTextSize
MaxChars == 2
\* largest width or height of an image handed to calculateImgPos
MaxDim == 3

-----------------------------------------------------------------------------
(* JavaScript values *)

JsNum(n) == [tag |-> "num", n |-> n]
JsNaN == [tag |-> "nan", n |-> 0]
JsUndef == [tag |-> "undef", n |-> 0]

IsNum(a) == a.tag = "num"

\* a < b and a > b of JavaScript: false as soon as one side is NaN (or undefined)
JsLt(a, b) == IsNum(a) /\ IsNum(b) /\ a.n < b.n
JsGt(a, b) == IsNum(a) /\ IsNum(b) /\ a.n > b.n
JsLe(a, b) == IsNum(a) /\ IsNum(b) /\ a.n <= b.n
JsGe(a, b) == IsNum(a) /\ IsNum(b) /\ a.n >= b.n

\* a string value that may be undefined
Str(s) == [def |-> TRUE, s |-> s]
StrUndef == [def |-> FALSE, s |-> <<>>]

\* truthiness of a string value: defined and not empty
Truthy(v) == v.def /\ v.s # <<>>

-----------------------------------------------------------------------------
(* String literals of format.ts, as character sequences *)

S_watermark == <<"w","a","t","e","r","m","a","r","k">>
S_text == <<"t","e","x","t">>
S_image == <<"i","m","a","g","e">>
S_t == <<"t">>
S_x == <<"x">>
S_y == <<"y">>
S_voffset == <<"v","o","f","f","s","e","t">>
S_order == <<"o","r","d","e","r">>
S_interval == <<"i","n","t","e","r","v","a","l">>
S_align == <<"a","l","i","g","n">>
S_g == <<"g">>
S_size == <<"s","i","z","e">>
S_fill == <<"f","i","l","l">>
S_auto == <<"a","u","t","o">>
S_rotate == <<"r","o","t","a","t","e">>
S_color == <<"c","o","l","o","r">>

S_north == <<"n","o","r","t","h">>
S_west == <<"w","e","s","t">>
S_east == <<"e","a","s","t">>
S_south == <<"s","o","u","t","h">>
S_center == <<"c","e","n","t","e","r">>
S_centre == <<"c","e","n","t","r","e">>
S_southeast == S_south \o S_east
S_southwest == S_south \o S_west
S_northwest == S_north \o S_west
S_northeast == S_north \o S_east
S_se == <<"s","e">>
S_sw == <<"s","w">>
S_nw == <<"n","w">>
S_ne == <<"n","e">>
S_000000 == <<"0","0","0","0","0","0">>

-----------------------------------------------------------------------------
(* String.prototype.split('_'), Number.parseInt(v, 10), Buffer.from(v,      *)
(* 'base64').toString('utf-8')                                              *)

RECURSIVE SplitAt(_, _, _)
\* the parts of s between occurrences of sep; cur is the part being read
SplitAt(s, sep, cur) ==
    IF s = <<>> THEN <<cur>>
    ELSE IF Head(s) = sep THEN <<cur>> \o SplitAt(Tail(s), sep, <<>>)
    ELSE SplitAt(Tail(s), sep, Append(cur, Head(s)))

Split(s) == SplitAt(s, "_", <<>>)

\* const [k, v] = param.split('_'): v is undefined when there is no second part
PartK(param) == Split(param)[1]
PartV(param) == IF Len(Split(param)) >= 2 THEN Str(Split(param)[2]) ELSE StrUndef

Digits == <<"0","1","2","3","4","5","6","7","8","9">>
IsDigit(c) == \E i \in 1..10 : Digits[i] = c
DigitVal(c) == (CHOOSE i \in 1..10 : Digits[i] = c) - 1

RECURSIVE SkipSpaces(_)
SkipSpaces(s) == IF s # <<>> /\ Head(s) = " " THEN SkipSpaces(Tail(s)) ELSE s

RECURSIVE ReadDigits(_, _, _)
\* the leading digits of s: [n |-> their value, cnt |-> how many]
ReadDigits(s, n, cnt) ==
    IF s # <<>> /\ IsDigit(Head(s))
    THEN ReadDigits(Tail(s), n * 10 + DigitVal(Head(s)), cnt + 1)
    ELSE [n |-> n, cnt |-> cnt]

\* Number.parseInt(v, 10): leading blanks, an optional sign, then digits up to
\* the first other character; NaN when there is no digit (undefined included)
ParseInt(v) ==
    IF ~v.def THEN JsNaN
    ELSE LET s == SkipSpaces(v.s)
             signed == s # <<>> /\ Head(s) \in {"-", "+"}
             neg == s # <<>> /\ Head(s) = "-"
             r == ReadDigits(IF signed THEN Tail(s) ELSE s, 0, 0)
         IN  IF r.cnt = 0 THEN JsNaN
             ELSE JsNum(IF neg THEN 0 - r.n ELSE r.n)

B64Alphabet ==
    <<"A","B","C","D","E","F","G","H","I","J","K","L","M","N","O","P",
      "Q","R","S","T","U","V","W","X","Y","Z","a","b","c","d","e","f",
      "g","h","i","j","k","l","m","n","o","p","q","r","s","t","u","v",
      "w","x","y","z","0","1","2","3","4","5","6","7","8","9","+","/">>

IsB64(c) == \E i \in 1..64 : B64Alphabet[i] = c
B64Index(c) == (CHOOSE i \in 1..64 : B64Alphabet[i] = c) - 1

RECURSIVE B64Prefix(_)
\* the characters of s before the first one that is not of the alphabet ('=')
B64Prefix(s) ==
    IF s # <<>> /\ IsB64(Head(s)) THEN <<Head(s)>> \o B64Prefix(Tail(s)) ELSE <<>>

RECURSIVE B64Bytes(_)
\* four characters give three bytes, three give two, two give one
B64Bytes(s) ==
    IF Len(s) < 2 THEN <<>>
    ELSE LET a == B64Index(s[1])
             b == B64Index(s[2])
             b1 == a * 4 + (b \div 16)
         IN  IF Len(s) = 2 THEN <<b1>>
             ELSE LET c == B64Index(s[3])
                      b2 == (b % 16) * 16 + (c \div 4)
                  IN  IF Len(s) = 3 THEN <<b1, b2>>
                      ELSE <<b1, b2, (c % 4) * 64 + B64Index(s[4])>>
                               \o B64Bytes(SubSeq(s, 5, Len(s)))

IsCont(b) == b \in 128..191

RECURSIVE Utf8Decode(_)
\* UTF-8 bytes to character codes (one to three bytes a character; a byte that
\* starts no such character decodes to U+FFFD)
Utf8Decode(b) ==
    IF b = <<>> THEN <<>>
    ELSE IF b[1] < 128 THEN <<b[1]>> \o Utf8Decode(Tail(b))
    ELSE IF b[1] \in 194..223 /\ Len(b) >= 2 /\ IsCont(b[2])
         THEN <<(b[1] - 192) * 64 + (b[2] - 128)>> \o Utf8Decode(SubSeq(b, 3, Len(b)))
    ELSE IF b[1] \in 224..239 /\ Len(b) >= 3 /\ IsCont(b[2]) /\ IsCont(b[3])
         THEN <<(b[1] - 224) * 4096 + (b[2] - 128) * 64 + (b[3] - 128)>>
                  \o Utf8Decode(SubSeq(b, 4, Len(b)))
    ELSE <<65533>> \o Utf8Decode(Tail(b))

\* Buffer.from(v, 'base64').toString('utf-8'), as the sequence of character codes
Base64ToText(s) == Utf8Decode(B64Bytes(B64Prefix(s)))

-----------------------------------------------------------------------------
(* WatermarkAction.gravityConvert, format.ts:341-355 *)

GravityAccepted ==
    {S_north, S_west, S_east, S_south, S_center, S_centre,
     S_southeast, S_southwest, S_northwest}

\* [ok |-> TRUE, val |-> the gravity] or [ok |-> FALSE]: InvalidArgument raised
gravityConvert(param) ==
    IF param.def /\ param.s \in GravityAccepted THEN [ok |-> TRUE, val |-> param.s]
    ELSE IF param.def /\ param.s = S_se THEN [ok |-> TRUE, val |-> S_southeast]
    ELSE IF param.def /\ param.s = S_sw THEN [ok |-> TRUE, val |-> S_southwest]
    ELSE IF param.def /\ param.s = S_nw THEN [ok |-> TRUE, val |-> S_northwest]
    ELSE IF param.def /\ param.s = S_ne THEN [ok |-> TRUE, val |-> S_northeast]
    ELSE [ok |-> FALSE, val |-> <<>>]

-----------------------------------------------------------------------------
(* WatermarkAction.validate, format.ts:115-202 *)

\* let opt: WatermarkOpts = {...}, format.ts:116
DefaultOpt ==
    [text |-> <<>>, t |-> JsNum(100), g |-> S_se, fill |-> FALSE,
     rotate |-> JsNum(0), size |-> JsNum(40), color |-> Str(S_000000),
     image |-> <<>>, auto |-> TRUE, order |-> JsNum(0), x |-> JsUndef,
     y |-> JsUndef, voffset |-> JsNum(0), interval |-> JsNum(0),
     align |-> JsNum(0)]

Returned(opt) == [ok |-> TRUE, opt |-> opt, err |-> "none", about |-> ""]
\* throw new InvalidArgument(...): opt is what had been assigned by then
Raised(opt, about) == [ok |-> FALSE, opt |-> opt, err |-> "InvalidArgument", about |-> about]

\* RangeChecked with the lower bound left unchecked
RangeChecked_NoLower(opt, f, v, lo, hi) ==
    LET n == ParseInt(v)
        o == [opt EXCEPT ![f] = n]
    IN  IF JsGt(n, JsNum(hi)) THEN [ok |-> FALSE, opt |-> o, err |-> "InvalidArgument", about |-> f]
        ELSE [ok |-> TRUE, opt |-> o, err |-> "none", about |-> ""]

\* opt.<f> = parseInt(v); if (opt.<f> < lo || opt.<f> > hi) throw
RangeChecked(opt, f, v, lo, hi) ==
    LET n == ParseInt(v)
        o == [opt EXCEPT ![f] = n]
    IN  IF JsLt(n, JsNum(lo)) \/ JsGt(n, JsNum(hi)) THEN Raised(o, f) ELSE Returned(o)

\* RotateParam storing 360 as it is
RotateParam_Keep360(opt, v) ==
    LET rotate == ParseInt(v)
    IN  IF JsLe(JsNum(0), rotate) /\ JsGe(JsNum(360), rotate)
        THEN [ok |-> TRUE, opt |-> [opt EXCEPT !.rotate = rotate], err |-> "none", about |-> ""]
        ELSE [ok |-> FALSE, opt |-> opt, err |-> "InvalidArgument", about |-> "rotate"]

\* the rotate branch, format.ts:179-189
RotateParam(opt, v) ==
    LET rotate == ParseInt(v)
    IN  IF JsLe(JsNum(0), rotate) /\ JsGe(JsNum(360), rotate)
        THEN IF rotate = JsNum(360)
             THEN Returned([opt EXCEPT !.rotate = JsNum(0)])
             ELSE Returned([opt EXCEPT !.rotate = rotate])
        ELSE Raised(opt, "rotate")

\* the fill and auto branches, format.ts:167-178
FlagParam(opt, f, v) ==
    IF Truthy(v) /\ (v.s = <<"0">> \/ v.s = <<"1">>)
    THEN Returned([opt EXCEPT ![f] = (v.s = <<"1">>)])
    ELSE Raised(opt, f)

\* one turn of the loop over params, format.ts:122-195
ValidateParam(opt, param) ==
    LET k == PartK(param)
        v == PartV(param)
    IN  IF k = S_text
        THEN Returned(IF Truthy(v) THEN [opt EXCEPT !.text = Base64ToText(v.s)] ELSE opt)
        ELSE IF k = S_image
        THEN Returned(IF Truthy(v) THEN [opt EXCEPT !.image = Base64ToText(v.s)] ELSE opt)
        ELSE IF k = S_t THEN Returned([opt EXCEPT !.t = ParseInt(v)])
        ELSE IF k = S_x THEN RangeChecked(opt, "x", v, 0, 4096)
        ELSE IF k = S_y THEN RangeChecked(opt, "y", v, 0, 4096)
        ELSE IF k = S_voffset THEN RangeChecked(opt, "voffset", v, -1000, 1000)
        ELSE IF k = S_order THEN Returned([opt EXCEPT !.order = ParseInt(v)])
        ELSE IF k = S_interval THEN RangeChecked(opt, "interval", v, 0, 1000)
        ELSE IF k = S_align THEN Returned([opt EXCEPT !.align = ParseInt(v)])
        ELSE IF k = S_g
        THEN LET c == gravityConvert(v)
             IN  IF c.ok THEN Returned([opt EXCEPT !.g = c.val]) ELSE Raised(opt, "g")
        ELSE IF k = S_size THEN RangeChecked(opt, "size", v, 0, 1000)
        ELSE IF k = S_fill THEN FlagParam(opt, "fill", v)
        ELSE IF k = S_auto THEN FlagParam(opt, "auto", v)
        ELSE IF k = S_rotate THEN RotateParam(opt, v)
        ELSE IF k = S_color THEN Returned([opt EXCEPT !.color = v])
        ELSE Raised(opt, "unknown")

RECURSIVE ValidateLoop(_, _)
\* for (const param of params) {...}; then the text-or-image check, format.ts:197
ValidateLoop(params, opt) ==
    IF params = <<>>
    THEN IF opt.text = <<>> /\ opt.image = <<>> THEN Raised(opt, "text") ELSE Returned(opt)
    ELSE IF Head(params) = S_watermark \/ Head(params) = <<>>
    THEN ValidateLoop(Tail(params), opt)
    ELSE LET r == ValidateParam(opt, Head(params))
         IN  IF r.ok THEN ValidateLoop(Tail(params), r.opt) ELSE r

WatermarkValidate(params) == ValidateLoop(params, DefaultOpt)

-----------------------------------------------------------------------------
(* WatermarkAction.calculateMixedGravity, format.ts:441-471 *)

\* calculateMixedGravity taking the order-0 branch whatever the order
calculateMixedGravity_IgnoresOrder(opt) ==
    IF opt.align = JsNum(1) THEN [imgGravity |-> S_west, textGravity |-> S_east]
    ELSE IF opt.align = JsNum(2)
         THEN [imgGravity |-> S_southwest, textGravity |-> S_southeast]
         ELSE [imgGravity |-> S_northwest, textGravity |-> S_northeast]

calculateMixedGravity(opt) ==
    IF opt.order = JsNum(1)
    THEN IF opt.align = JsNum(1) THEN [imgGravity |-> S_east, textGravity |-> S_west]
         ELSE IF opt.align = JsNum(2)
              THEN [imgGravity |-> S_southeast, textGravity |-> S_southwest]
              ELSE [imgGravity |-> S_northeast, textGravity |-> S_northwest]
    ELSE IF opt.align = JsNum(1) THEN [imgGravity |-> S_west, textGravity |-> S_east]
         ELSE IF opt.align = JsNum(2)
              THEN [imgGravity |-> S_southwest, textGravity |-> S_southeast]
              ELSE [imgGravity |-> S_northwest, textGravity |-> S_northeast]

-----------------------------------------------------------------------------
(* FormatAction, format.ts:10-72 *)

SUPPORTED_FORMAT == {"jpg", "jpeg", "png", "webp", "gif"}

\* FormatAction.validate, format.ts:22-35
FormatValidate(params) ==
    IF Len(params) # 2 THEN [ok |-> FALSE, format |-> "", err |-> "InvalidArgument"]
    ELSE IF params[2] \notin SUPPORTED_FORMAT
         THEN [ok |-> FALSE, format |-> params[2], err |-> "InvalidArgument"]
         ELSE [ok |-> TRUE, format |-> params[2], err |-> "none"]

\* FormatAction.beforeNewContext, format.ts:13-20: the value it gives
\* ctx.features[ReadAllAnimatedFrames], when validate does not raise
FormatReadAllFrames(params) == FormatValidate(params).format \in {"webp", "gif"}

\* the encoder of a sharp handle: none chosen, or the format and its options
NoEncoder == [format |-> "none", effort |-> JsUndef, quality |-> JsUndef]
\* image.jpeg(), image.png({effort: 2, quality: 80}), image.webp({effort: 2, quality: 80})
JpegEncoder == [format |-> "jpeg", effort |-> JsUndef, quality |-> JsUndef]
PngEncoder == [format |-> "png", effort |-> JsNum(2), quality |-> JsNum(80)]
WebpEncoder == [format |-> "webp", effort |-> JsNum(2), quality |-> JsNum(80)]

\* sharp(input, {page}): a new handle; id tells handles apart, page is
\* undefined (as the input opens) or 0 (pinned to the first frame), composites
\* counts the composite() calls made on it
Sharp(id, input, page) ==
    [id |-> id, input |-> input, page |-> page, encoder |-> NoEncoder, composites |-> 0]

\* !!(pages && (pages > 0)), format.ts:48
SrcImgIsAnimated(pages) == IsNum(pages) /\ pages.n # 0 /\ pages.n > 0

\* FormatAction.process pinning an animated source to its first frame for
\* every target, webp included
FormatProcess_PinsForWebp(ctx, params, pages, engineOk, id) ==
    LET c1 == [ctx EXCEPT !.autoWebp = FALSE]
        opt == FormatValidate(params)
    IN  IF ~ctx.hasFeatures THEN [ctx |-> ctx, ok |-> FALSE, err |-> "TypeError"]
        ELSE IF ~opt.ok THEN [ctx |-> c1, ok |-> FALSE, err |-> "InvalidArgument"]
        ELSE IF opt.format = "gif" THEN [ctx |-> c1, ok |-> TRUE, err |-> "none"]
        ELSE IF ~engineOk THEN [ctx |-> c1, ok |-> FALSE, err |-> "Error"]
        ELSE LET img == IF SrcImgIsAnimated(pages)
                        THEN Sharp(id, "rendered", JsNum(0))
                        ELSE c1.image
                 enc == IF opt.format \in {"jpeg", "jpg"} THEN JpegEncoder
                        ELSE IF opt.format = "png" THEN PngEncoder
                        ELSE WebpEncoder
             IN  [ctx |-> [c1 EXCEPT !.image = [img EXCEPT !.encoder = enc]],
                  ok |-> TRUE, err |-> "none"]

\* FormatAction.process, format.ts:38-63.  pages is what the metadata of the
\* rendered buffer says, engineOk whether toBuffer()/metadata() resolve, id the
\* identity a handle opened here gets.  [ctx, ok, err]; reading
\* ctx.features[...] of a context that has no features is a TypeError
FormatProcess(ctx, params, pages, engineOk, id) ==
    LET c1 == [ctx EXCEPT !.autoWebp = FALSE]
        opt == FormatValidate(params)
    IN  IF ~ctx.hasFeatures THEN [ctx |-> ctx, ok |-> FALSE, err |-> "TypeError"]
        ELSE IF ~opt.ok THEN [ctx |-> c1, ok |-> FALSE, err |-> "InvalidArgument"]
        ELSE IF opt.format = "gif" THEN [ctx |-> c1, ok |-> TRUE, err |-> "none"]
        ELSE IF ~engineOk THEN [ctx |-> c1, ok |-> FALSE, err |-> "Error"]
        ELSE LET notToAnimatedFormat == opt.format \notin {"webp", "gif"}
                 img == IF SrcImgIsAnimated(pages) /\ notToAnimatedFormat
                        THEN Sharp(id, "rendered", JsNum(0))
                        ELSE c1.image
                 enc == IF opt.format \in {"jpeg", "jpg"} THEN JpegEncoder
                        ELSE IF opt.format = "png" THEN PngEncoder
                        ELSE IF opt.format = "webp" THEN WebpEncoder
                        ELSE img.encoder
             IN  [ctx |-> [c1 EXCEPT !.image = [img EXCEPT !.encoder = enc]],
                  ok |-> TRUE, err |-> "none"]

-----------------------------------------------------------------------------
(* Inputs of the format model *)

FormatNames == SUPPORTED_FORMAT \cup {"bmp", ""}

FormatParams ==
    {<<"format">>} \cup {<<"format", f>> : f \in FormatNames}
    \cup {<<"format", "jpg", "png">>}

PagesValues == {JsUndef} \cup {JsNum(n) : n \in 0..MaxPages}

NoFmtOut == [ok |-> FALSE, err |-> "none"]

FmtIdle ==
    /\ fmtParams = <<>>
    /\ fmtPc = "idle"
    /\ fmtCtx = [image |-> Sharp(0, "source", JsUndef), hasFeatures |-> TRUE, autoWebp |-> FALSE]
    /\ fmtPages = JsUndef
    /\ fmtNext = 1
    /\ fmtOut = NoFmtOut

\* process is handed a context whose image was opened from the source bytes
\* and may have an encoder set by an earlier action
FmtInit ==
    /\ fmtParams \in FormatParams
    /\ fmtPc = "input"
    /\ \E enc \in {NoEncoder, JpegEncoder, WebpEncoder}, aw \in BOOLEAN :
          fmtCtx = [image |-> [Sharp(0, "source", JsUndef) EXCEPT !.encoder = enc],
                    hasFeatures |-> TRUE, autoWebp |-> aw]
    /\ fmtPages \in PagesValues
    /\ fmtNext = 1
    /\ fmtOut = NoFmtOut

\* process(ctx, params) is called; the Image Engine renders the image or fails
Process ==
    /\ fmtPc = "input"
    /\ \E engineOk \in BOOLEAN :
          LET r == FormatProcess(fmtCtx, fmtParams, fmtPages, engineOk, fmtNext)
          IN  /\ fmtCtx' = r.ctx
              /\ fmtOut' = [ok |-> r.ok, err |-> r.err]
              /\ fmtNext' = IF r.ctx.image.id = fmtNext THEN fmtNext + 1 ELSE fmtNext
    /\ fmtPc' = "done"
    /\ UNCHANGED <<fmtParams, fmtPages, wmVars, reqVars, mkVars>>

FmtNext == Process

-----------------------------------------------------------------------------
(* Inputs of the watermark model *)

Tok(k, v) == k \o <<"_">> \o v

\* strings handed to gravityConvert and put behind 'g_'
GravityInputs ==
    {S_north, S_west, S_east, S_south, S_center, S_centre, S_southeast,
     S_southwest, S_northwest, S_northeast, S_se, S_sw, S_nw, S_ne,
     <<"u","p">>, <<"N","o","r","t","h">>, <<>>}

\* tokens that supply a text or an image: '5L2g5aW9' is two characters above
\* code 256, 'YWI' is 'ab', 'Q' decodes to no byte at all
TextTokens ==
    {Tok(S_text, <<"5","L","2","g","5","a","W","9">>), Tok(S_text, <<"Y","W","I">>),
     Tok(S_text, <<"Q">>), Tok(S_text, <<>>), S_text}
ImageTokens == {Tok(S_image, <<"Y","W","I">>), Tok(S_image, <<>>)}

N_0 == <<"0">>
N_1 == <<"1">>
N_2 == <<"2">>
N_1000 == <<"1","0","0","0">>
N_1001 == <<"1","0","0","1">>
N_4096 == <<"4","0","9","6">>
N_4097 == <<"4","0","9","7">>
N_neg1 == <<"-","1">>
N_abc == <<"a","b","c">>

\* number tokens: the ends of each documented range, the values next to them
\* outside it, and strings parseInt reads as NaN or only in part
NumberTokens ==
    {Tok(S_t, v) : v \in {<<"5","0">>, <<"2","0","0">>, N_neg1, N_abc}}
    \cup {Tok(S_x, v) : v \in {N_0, N_4096, N_4097, <<"5","0","0","0">>, N_neg1, N_abc}}
    \cup {Tok(S_y, v) : v \in {N_0, N_4096, N_4097, N_neg1}}
    \cup {Tok(S_voffset, v) : v \in {<<"-","1","0","0","0">>, <<"-","1","0","0","1">>,
                                     N_1000, N_1001, N_abc}}
    \cup {Tok(S_order, v) : v \in {N_1, N_2, N_abc}}
    \cup {Tok(S_interval, v) : v \in {N_1000, N_1001, N_neg1}}
    \cup {Tok(S_align, v) : v \in {N_1, N_2, <<"3">>}}
    \cup {Tok(S_size, v) : v \in {N_0, N_1000, N_1001, N_neg1, <<"1","2","p","x">>}}
    \cup {Tok(S_rotate, v) : v \in {N_0, <<"3","5","9">>, <<"3","6","0">>, <<"3","6","1">>,
                                    N_neg1, N_abc, <<>>}}

TokenPool ==
    TextTokens \cup ImageTokens
    \cup NumberTokens
    \cup {Tok(S_g, v) : v \in GravityInputs} \cup {S_g}
    \cup {Tok(S_fill, N_1), Tok(S_fill, N_2), Tok(S_auto, N_0), Tok(S_auto, <<>>), S_fill}
    \cup {Tok(S_color, <<"F","F","0","0","0","0">>), S_color,
          Tok(<<"b","l","u","r">>, <<"1">>), <<>>, S_watermark}

NoOut == [ok |-> FALSE, opt |-> DefaultOpt, err |-> "none", about |-> ""]
NoMixed == [imgGravity |-> <<>>, textGravity |-> <<>>]
NoGc == [ok |-> FALSE, val |-> <<>>]

WmIdle ==
    /\ wmParams = <<>>
    /\ wmPc = "idle"
    /\ wmOut = NoOut
    /\ wmMixed = NoMixed
    /\ gcArg = StrUndef
    /\ gcOut = NoGc

\* requests for the mixed layout: a text, an image, and order and align tokens
\* (or none) in either order
MixedRequests ==
    LET orders == {<<>>} \cup {<<Tok(S_order, v)>> : v \in {N_0, N_1, N_2, N_abc}}
        aligns == {<<>>} \cup {<<Tok(S_align, v)>> : v \in {N_0, N_1, N_2, <<"3">>}}
        both == <<Tok(S_text, <<"Y","W","I">>), Tok(S_image, <<"Y","W","I">>)>>
    IN  {both \o o \o a : o \in orders, a \in aligns}
        \cup {a \o o \o both : o \in orders, a \in aligns}

\* validate is handed the action name and then up to MaxTokens tokens of the
\* pool (or a mixed-layout request); gravityConvert is handed a string
WmInit ==
    /\ wmOut = NoOut
    /\ wmMixed = NoMixed
    /\ gcOut = NoGc
    /\ \/ /\ \/ \E n \in 0..MaxTokens : \E l \in [1..n -> TokenPool] :
                    wmParams = <<S_watermark>> \o l
             \/ \E l \in MixedRequests : wmParams = <<S_watermark>> \o l
          /\ wmPc = "input"
          /\ gcArg = StrUndef
       \/ /\ wmParams = <<>>
          /\ wmPc = "gravity"
          /\ gcArg \in {Str(g) : g \in GravityInputs} \cup {StrUndef}

\* validate(params) is called
Validate ==
    /\ wmPc = "input"
    /\ wmOut' = WatermarkValidate(wmParams)
    /\ wmPc' = "validated"
    /\ UNCHANGED <<wmParams, wmMixed, gcArg, gcOut, fmtVars, reqVars, mkVars>>

\* calculateMixedGravity(opt) is called on the options validate returned
CalculateMixedGravity ==
    /\ wmPc = "validated"
    /\ wmOut.ok
    /\ wmMixed' = calculateMixedGravity(wmOut.opt)
    /\ wmPc' = "mixed"
    /\ UNCHANGED <<wmParams, wmOut, gcArg, gcOut, fmtVars, reqVars, mkVars>>

\* gravityConvert(param) is called on a string, or on undefined
GravityConvert ==
    /\ wmPc = "gravity"
    /\ gcOut' = gravityConvert(gcArg)
    /\ wmPc' = "converted"
    /\ UNCHANGED <<wmParams, wmOut, wmMixed, gcArg, fmtVars, reqVars, mkVars>>

WmNext == Validate \/ CalculateMixedGravity \/ GravityConvert

-----------------------------------------------------------------------------
(* Numbers of JavaScript in the watermark's rendering *)

\* const margin = 5, format.ts:76
margin == 5

\* truthiness of a number: not undefined, not NaN, not 0
NumTruthy(a) == IsNum(a) /\ a.n # 0

\* a + b and a - b: NaN as soon as one side is NaN or undefined
JsAdd(a, b) == IF IsNum(a) /\ IsNum(b) THEN JsNum(a.n + b.n) ELSE JsNaN
JsSub(a, b) == IF IsNum(a) /\ IsNum(b) THEN JsNum(a.n - b.n) ELSE JsNaN

\* Math.round(n / 2) and Math.round(n / 10) of an integer n: halves go up
RoundHalf(n) == (n + 1) \div 2
RoundTenth(n) == (n + 5) \div 10

-----------------------------------------------------------------------------
(* WatermarkAction.calculateTextSize, format.ts:357-373; widths are summed   *)
(* in tenths of a pixel, so that 0.8 * fontSize is exact                     *)

\* ten times what one character adds to cWidth, format.ts:361-367
CharCost_From97(charCode, fontSize) ==
    IF charCode > 256 THEN 10 * fontSize
    ELSE IF charCode >= 97 THEN 5 * fontSize
    ELSE 8 * fontSize

CharCost(charCode, fontSize) ==
    IF charCode > 256 THEN 10 * fontSize
    ELSE IF charCode > 97 THEN 5 * fontSize
    ELSE 8 * fontSize

RECURSIVE CWidth(_, _)
\* ten times cWidth after the loop over the text, format.ts:358-368
CWidth(text, fontSize) ==
    IF text = <<>> THEN 0
    ELSE CharCost(Head(text), fontSize) + CWidth(Tail(text), fontSize)

\* text is the sequence of the character codes, fontSize a number or NaN
calculateTextSize(text, fontSize) ==
    IF IsNum(fontSize)
    THEN [width |-> JsNum(RoundTenth(CWidth(text, fontSize.n) + 10 * margin)),
          height |-> JsNum(RoundTenth(12 * fontSize.n))]
    ELSE [width |-> IF text = <<>> THEN JsNum(margin) ELSE JsNaN,
          height |-> JsNaN]

-----------------------------------------------------------------------------
(* WatermarkAction.calculateImgPos, format.ts:398-439 *)

StartsWith(s, prefix) == Len(s) >= Len(prefix) /\ SubSeq(s, 1, Len(prefix)) = prefix
EndsIn(s, suffix) ==
    Len(s) >= Len(suffix) /\ SubSeq(s, Len(s) - Len(suffix) + 1, Len(s)) = suffix

calculateImgPos(opt, metadata, markMetadata) ==
    IF ~(NumTruthy(markMetadata.width) /\ NumTruthy(metadata.width)
         /\ NumTruthy(markMetadata.height) /\ NumTruthy(metadata.height))
    THEN [x |-> JsUndef, y |-> JsUndef]
    ELSE LET W == metadata.width.n
             H == metadata.height.n
             w == markMetadata.width.n
             h == markMetadata.height.n
             y1 == IF opt.g \in {S_east, S_west, S_center}
                   THEN JsAdd(JsNum(RoundHalf(H - h)), opt.voffset)
                   ELSE IF NumTruthy(opt.y)
                        THEN IF StartsWith(opt.g, S_south)
                             THEN JsNum(H - h - opt.y.n) ELSE opt.y
                        ELSE JsUndef
         IN  IF opt.g \in {S_north, S_south}
             THEN [x |-> JsNum(RoundHalf(W - w)),
                   y |-> IF ~NumTruthy(y1)
                         THEN IF opt.g = S_north THEN JsNum(0) ELSE JsNum(H - h)
                         ELSE y1]
             ELSE [x |-> IF NumTruthy(opt.x)
                         THEN IF EndsIn(opt.g, S_east) THEN JsNum(W - w - opt.x.n)
                              ELSE IF opt.g = S_center THEN JsNum(RoundHalf(W - w))
                              ELSE opt.x
                         ELSE JsUndef,
                   y |-> y1]

-----------------------------------------------------------------------------
(* The overlays of textWaterMark and imgWaterMark, format.ts:216-285,        *)
(* 374-396 and 473-527.  Of the Image Engine (sharp) the model keeps the     *)
(* sizes: a canvas has the size it was created with, rotate by a right angle *)
(* swaps or keeps the sides, resize(w, h) gives w by h and rejects a side    *)
(* that is not positive, and metadata() of a handle tells the size of its    *)
(* input, not of the operations pending on it                                *)

Size(width, height) == [width |-> width, height |-> height]
NoSize == Size(JsUndef, JsUndef)

\* textSvgStr(opt, textOpt, applyOpacity), format.ts:374-383; the opacity is
\* kept in hundredths: opt.t / 100 is opt.t hundredths, 1 is 100 hundredths
textSvgStr_OpaqueWhenRotated(opt, textOpt, applyOpacity) ==
    [viewBox |-> textOpt,
     fontSize |-> opt.size,
     x |-> IF IsNum(textOpt.width) THEN JsNum(RoundHalf(textOpt.width.n)) ELSE JsNaN,
     y |-> IF IsNum(textOpt.height) THEN JsNum(RoundTenth(8 * textOpt.height.n)) ELSE JsNaN,
     fill |-> opt.color,
     opacity |-> IF applyOpacity /\ ~JsLt(JsNum(0), opt.rotate)
                 THEN (IF IsNum(opt.t) THEN opt.t ELSE JsNaN) ELSE JsNum(100),
     text |-> opt.text]

textSvgStr(opt, textOpt, applyOpacity) ==
    [viewBox |-> textOpt,
     fontSize |-> opt.size,
     x |-> IF IsNum(textOpt.width) THEN JsNum(RoundHalf(textOpt.width.n)) ELSE JsNaN,
     y |-> IF IsNum(textOpt.height) THEN JsNum(RoundTenth(8 * textOpt.height.n)) ELSE JsNaN,
     fill |-> opt.color,
     opacity |-> IF applyOpacity THEN (IF IsNum(opt.t) THEN opt.t ELSE JsNaN) ELSE JsNum(100),
     text |-> opt.text]

\* textSvgImg(svgBytes, textOpt), format.ts:385-396: the size of the canvas
textSvgImg(textOpt) ==
    Size(JsAdd(textOpt.width, JsNum(margin)), JsAdd(textOpt.height, JsNum(margin)))

\* the size of an image once rotate(angle) has been applied
Rotated(size, angle) ==
    IF IsNum(angle) /\ angle.n \in {90, 270} THEN Size(size.height, size.width) ELSE size

\* whether sharp accepts the side of a canvas or of a resize
PositiveSide(a) == IsNum(a) /\ a.n > 0

\* an overlay handed to composite, or the error that came before
Overlay(size, cur, resized) ==
    [ok |-> TRUE, err |-> "none", width |-> size.width, height |-> size.height,
     curWidth |-> cur.width, curHeight |-> cur.height, resized |-> resized]
NoOverlay(e, cur) ==
    [ok |-> FALSE, err |-> e, width |-> JsUndef, height |-> JsUndef,
     curWidth |-> cur.width, curHeight |-> cur.height, resized |-> FALSE]

\* autoResizeImg(source, ctx, opt, textOpt), format.ts:473-499; source is the
\* canvas of the text with rotate(angle) pending on it
autoResizeImg(canvas, angle, metadata, opt, textOpt) ==
    LET cur == Rotated(canvas, angle)
        overW == NumTruthy(canvas.width) /\ NumTruthy(metadata.width)
                 /\ canvas.width.n > metadata.width.n
        overH == NumTruthy(canvas.height) /\ NumTruthy(metadata.height)
                 /\ canvas.height.n > metadata.height.n
        w == IF overW THEN JsNum(metadata.width.n - 10) ELSE textOpt.width
        h == IF overH THEN JsNum(metadata.height.n - 10) ELSE textOpt.height
    IN  IF opt.auto /\ (overW \/ overH)
        THEN IF PositiveSide(w) /\ PositiveSide(h)
             THEN Overlay(Size(w, h), cur, TRUE)
             ELSE NoOverlay("Error", cur)
        ELSE Overlay(cur, cur, FALSE)

\* autoResizeSvg(source, ctx, opt, textOpt), format.ts:501-527; the markup is
\* drawn at the size of its viewBox
autoResizeSvg(metadata, opt, textOpt) ==
    LET overW == NumTruthy(metadata.width) /\ JsLt(metadata.width, textOpt.width)
        overH == NumTruthy(metadata.height) /\ JsLt(metadata.height, textOpt.height)
        w == IF overW THEN metadata.width ELSE textOpt.width
        h == IF overH THEN metadata.height ELSE textOpt.height
        canvas == textSvgImg(textOpt)
    IN  IF opt.auto /\ (overW \/ overH)
        THEN IF PositiveSide(canvas.width) /\ PositiveSide(canvas.height)
                /\ PositiveSide(w) /\ PositiveSide(h)
             THEN Overlay(Size(w, h), textOpt, TRUE)
             ELSE NoOverlay("Error", textOpt)
        ELSE Overlay(textOpt, textOpt, FALSE)

\* textWaterMark(ctx, opt), format.ts:216-239: the markup and the overlay
textWaterMark(opt, metadata) ==
    LET textOpt == calculateTextSize(opt.text, opt.size)
        svg == textSvgStr(opt, textOpt, TRUE)
        canvas == textSvgImg(textOpt)
    IN  IF JsLt(JsNum(0), opt.rotate)
        THEN [svg |-> svg, rotated |-> TRUE,
              overlay |-> IF PositiveSide(canvas.width) /\ PositiveSide(canvas.height)
                          THEN autoResizeImg(canvas, opt.rotate, metadata, opt, textOpt)
                          ELSE NoOverlay("Error", canvas)]
        ELSE [svg |-> svg, rotated |-> FALSE,
              overlay |-> autoResizeSvg(metadata, opt, textOpt)]

\* imgWaterMark(ctx, opt), format.ts:245-285: the overlay, where it is put
\* and whether the opacity is applied in a second pass; mark is the metadata
\* of the watermark image as fetched
imgWaterMark(opt, metadata, mark) ==
    LET turned == IF JsLt(JsNum(0), opt.rotate)
                  THEN Rotated(Size(mark.width, mark.height), opt.rotate)
                  ELSE Size(mark.width, mark.height)
        markMetadata == [width |-> turned.width, height |-> turned.height,
                         hasAlpha |-> mark.hasAlpha]
        overW == NumTruthy(markMetadata.width) /\ NumTruthy(metadata.width)
                 /\ markMetadata.width.n > metadata.width.n
        overH == NumTruthy(markMetadata.height) /\ NumTruthy(metadata.height)
                 /\ markMetadata.height.n > metadata.height.n
        width == IF overW THEN JsNum(metadata.width.n - 1) ELSE markMetadata.width
        height == IF overH THEN JsNum(metadata.height.n - 1) ELSE markMetadata.height
        pos == calculateImgPos(opt, metadata, markMetadata)
    IN  [pos |-> pos,
         twoPass |-> JsLt(opt.t, JsNum(100)) /\ markMetadata.hasAlpha,
         overlay |-> IF opt.auto /\ (overW \/ overH)
                     THEN IF PositiveSide(width) /\ PositiveSide(height)
                          THEN Overlay(Size(width, height), turned, TRUE)
                          ELSE NoOverlay("Error", turned)
                     ELSE Overlay(turned, turned, FALSE)]

-----------------------------------------------------------------------------
(* Inputs of the rendering model *)

\* the largest size validate lets through, format.ts:164
MaxFontSize == 1000

\* character codes on both sides of the two thresholds
CharPool == {97, 98, 256, 257}
Texts == UNION {[1..n -> CharPool] : n \in 0..MaxChars}

\* the gravities validate can return: the accepted long forms, 'northeast'
\* for 'ne', and the default 'se'
ReturnedGravities == GravityAccepted \cup {S_northeast, S_se}

\* a side of an image as metadata() tells it: a number, or undefined
Dims == {JsUndef} \cup {JsNum(n) : n \in 1..MaxDim}

\* the targets of the watermarks
Targets == {Size(JsNum(W), JsNum(H)) : W \in {1, 8, 70, 100}, H \in {8, 50, 130}}

Mark(width, height, hasAlpha) == [width |-> width, height |-> height, hasAlpha |-> hasAlpha]
NoMark == Mark(JsUndef, JsUndef, FALSE)

NoSvg ==
    [viewBox |-> NoSize, fontSize |-> JsUndef, x |-> JsUndef, y |-> JsUndef,
     fill |-> StrUndef, opacity |-> JsUndef, text |-> <<>>]
NoMkOut ==
    [size |-> NoSize, pos |-> [x |-> JsUndef, y |-> JsUndef], svg |-> NoSvg,
     rotated |-> FALSE, twoPass |-> FALSE, overlay |-> NoOverlay("none", NoSize)]

MkIdle ==
    /\ mkCall = "none"
    /\ mkPc = "idle"
    /\ mkOpt = DefaultOpt
    /\ mkMeta = NoSize
    /\ mkMark = NoMark
    /\ mkOut = NoMkOut

\* one of the four functions is about to be called, on options validate can
\* return
MkInit ==
    /\ mkPc = "input"
    /\ mkOut = NoMkOut
    /\ \/ /\ mkCall = "textsize"
          /\ \E text \in Texts, size \in {JsNum(n) : n \in 0..MaxFontSize} \cup {JsNaN} :
                mkOpt = [DefaultOpt EXCEPT !.text = text, !.size = size]
          /\ mkMeta = NoSize
          /\ mkMark = NoMark
       \/ /\ mkCall = "imgpos"
          /\ \E g \in ReturnedGravities, x \in {JsUndef, JsNum(0), JsNum(2)},
                y \in {JsUndef, JsNum(0), JsNum(2)},
                voffset \in {JsNum(-1), JsNum(0), JsNum(1)} :
                mkOpt = [DefaultOpt EXCEPT !.image = <<97>>, !.g = g, !.x = x, !.y = y,
                                           !.voffset = voffset]
          /\ \E W \in Dims, H \in Dims : mkMeta = Size(W, H)
          /\ \E w \in Dims, h \in Dims : mkMark = Mark(w, h, FALSE)
       \/ /\ mkCall = "text"
          /\ \E text \in {<<98>>, <<98, 257>>}, size \in {JsNum(20), JsNum(100), JsNaN},
                rotate \in {JsNum(0), JsNum(90), JsNum(180), JsNum(270), JsNaN},
                auto \in BOOLEAN, t \in {JsNum(100), JsNum(50), JsNaN} :
                mkOpt = [DefaultOpt EXCEPT !.text = text, !.size = size, !.rotate = rotate,
                                           !.auto = auto, !.t = t]
          /\ mkMeta \in Targets
          /\ mkMark = NoMark
       \/ /\ mkCall = "img"
          /\ \E rotate \in {JsNum(0), JsNum(90)}, auto \in BOOLEAN,
                t \in {JsNum(100), JsNum(50)}, g \in {S_se, S_southeast, S_north},
                x \in {JsUndef, JsNum(0), JsNum(5)} :
                mkOpt = [DefaultOpt EXCEPT !.image = <<97>>, !.rotate = rotate,
                                           !.auto = auto, !.t = t, !.g = g, !.x = x]
          /\ mkMeta \in Targets
          /\ \E hasAlpha \in BOOLEAN :
                mkMark \in {Mark(JsNum(10), JsNum(40), hasAlpha),
                            Mark(JsNum(90), JsNum(20), hasAlpha)}

\* calculateTextSize(opt.text, opt.size)
CalculateTextSize ==
    /\ mkPc = "input"
    /\ mkCall = "textsize"
    /\ mkOut' = [mkOut EXCEPT !.size = calculateTextSize(mkOpt.text, mkOpt.size)]
    /\ mkPc' = "done"
    /\ UNCHANGED <<mkCall, mkOpt, mkMeta, mkMark, wmVars, fmtVars, reqVars>>

\* calculateImgPos(opt, metadata, markMetadata)
CalculateImgPos ==
    /\ mkPc = "input"
    /\ mkCall = "imgpos"
    /\ mkOut' = [mkOut EXCEPT !.pos = calculateImgPos(mkOpt, mkMeta, mkMark)]
    /\ mkPc' = "done"
    /\ UNCHANGED <<mkCall, mkOpt, mkMeta, mkMark, wmVars, fmtVars, reqVars>>

\* textWaterMark(ctx, opt) on a target with the metadata mkMeta
TextWaterMark ==
    /\ mkPc = "input"
    /\ mkCall = "text"
    /\ LET r == textWaterMark(mkOpt, mkMeta)
       IN  mkOut' = [mkOut EXCEPT !.size = calculateTextSize(mkOpt.text, mkOpt.size),
                                  !.svg = r.svg, !.rotated = r.rotated,
                                  !.overlay = r.overlay]
    /\ mkPc' = "done"
    /\ UNCHANGED <<mkCall, mkOpt, mkMeta, mkMark, wmVars, fmtVars, reqVars>>

\* imgWaterMark(ctx, opt): the watermark image is read from the Buffer Store,
\* or is missing (format.ts:244)
ImgWaterMark ==
    /\ mkPc = "input"
    /\ mkCall = "img"
    /\ \E found \in BOOLEAN :
          IF found
          THEN LET r == imgWaterMark(mkOpt, mkMeta, mkMark)
               IN  mkOut' = [mkOut EXCEPT !.pos = r.pos, !.twoPass = r.twoPass,
                                          !.overlay = r.overlay]
          ELSE mkOut' = [mkOut EXCEPT !.overlay = NoOverlay("ENOENT", NoSize)]
    /\ mkPc' = "done"
    /\ UNCHANGED <<mkCall, mkOpt, mkMeta, mkMark, wmVars, fmtVars, reqVars>>

MkNext == CalculateTextSize \/ CalculateImgPos \/ TextWaterMark \/ ImgWaterMark

-----------------------------------------------------------------------------
(* Errors, as the handlers read them: code, statusCode, status, name, message *)

Err(code, statusCode, status, name, message) ==
    [code |-> code, statusCode |-> statusCode, status |-> status, name |-> name,
     message |-> message]
NoErr == Err("", JsUndef, JsUndef, "", "")

\* InvalidArgument of './processor': a client error
InvalidArgumentErr == Err("", JsNum(400), JsNum(400), "InvalidArgument", "invalid argument")
\* bypass(), index-lambda.ts:32-35 and part_000:159-162: new HttpErrors[403](...)
bypass == Err("", JsNum(403), JsNum(403), "ForbiddenError", "Please visit s3 directly")
\* the storage layer's "no such object"
EnoentErr == Err("ENOENT", JsUndef, JsUndef, "Error", "ENOENT: no such file or directory")
\* any other failure of a collaborator: a plain Error
PlainErr == Err("", JsUndef, JsUndef, "Error", "internal error")
\* ctx.features[...] on a context without features, format.ts:39
TypeErr == Err("", JsUndef, JsUndef, "TypeError", "Cannot read properties of undefined")

ErrNamed(name) ==
    IF name = "InvalidArgument" THEN InvalidArgumentErr
    ELSE IF name = "TypeError" THEN TypeErr ELSE PlainErr

-----------------------------------------------------------------------------
(* Bodies and responses *)

NoJson == [status |-> JsUndef, name |-> "", message |-> ""]
\* what a handler hands over as the body: a Buffer, a string or an object
BufferBody(bytes) == [kind |-> "buffer", bytes |-> bytes, chars |-> <<>>, text |-> "", json |-> NoJson]
StringBody(text) == [kind |-> "string", bytes |-> <<>>, chars |-> <<>>, text |-> text, json |-> NoJson]
ObjectBody(json) == [kind |-> "object", bytes |-> <<>>, chars |-> <<>>, text |-> "", json |-> json]
NoBody == [kind |-> "none", bytes |-> <<>>, chars |-> <<>>, text |-> "", json |-> NoJson]

NoResp == [isBase64Encoded |-> FALSE, statusCode |-> JsUndef, contentType |-> "", body |-> NoBody]

RECURSIVE B64Encode(_)
\* body.toString('base64'): three bytes give four characters, '=' pads the rest
B64Encode(b) ==
    IF b = <<>> THEN <<>>
    ELSE LET c1 == B64Alphabet[(b[1] \div 4) + 1]
         IN  IF Len(b) = 1 THEN <<c1, B64Alphabet[(b[1] % 4) * 16 + 1], "=", "=">>
             ELSE LET c2 == B64Alphabet[(b[1] % 4) * 16 + (b[2] \div 16) + 1]
                  IN  IF Len(b) = 2
                      THEN <<c1, c2, B64Alphabet[(b[2] % 16) * 4 + 1], "=">>
                      ELSE <<c1, c2, B64Alphabet[(b[2] % 16) * 4 + (b[3] \div 64) + 1],
                             B64Alphabet[(b[3] % 64) + 1]>>
                               \o B64Encode(SubSeq(b, 4, Len(b)))

\* resp(code, body, type), index-lambda.ts:37-56; type "undefined" is no type
resp(code, body, type) ==
    IF body.kind = "buffer"
    THEN [isBase64Encoded |-> TRUE, statusCode |-> code,
          contentType |-> IF type = "undefined" THEN "text/plain" ELSE type,
          body |-> [body EXCEPT !.kind = "base64", !.chars = B64Encode(body.bytes), !.bytes = <<>>]]
    ELSE IF body.kind = "string" /\ body.text # ""
    THEN [isBase64Encoded |-> FALSE, statusCode |-> code, contentType |-> "text/plain",
          body |-> [body EXCEPT !.kind = "text"]]
    ELSE [isBase64Encoded |-> FALSE, statusCode |-> code, contentType |-> "application/json",
          body |-> [body EXCEPT !.kind = "json"]]

\* the ENOENT support of both wrappers
EnoentSupport(e) ==
    IF e.code = "ENOENT" THEN [e EXCEPT !.status = JsNum(404), !.message = "NotFound"] ELSE e

\* WrapError's catch, index-lambda.ts:67-81
WrapError(e) ==
    LET e1 == EnoentSupport(e)
        statusCode == IF e1.statusCode # JsUndef THEN e1.statusCode
                      ELSE IF e1.status # JsUndef THEN e1.status ELSE JsNum(500)
    IN  resp(statusCode,
             ObjectBody([status |-> statusCode, name |-> e1.name, message |-> e1.message]),
             "undefined")

\* what Koa answers once ctx.status, ctx.body and ctx.type are as given: the
\* type follows the body unless ctx.type was set
KoaSend(status, body, type) ==
    [isBase64Encoded |-> FALSE, statusCode |-> status,
     contentType |-> IF type # "undefined" THEN type
                     ELSE IF body.kind = "buffer" THEN "application/octet-stream"
                     ELSE IF body.kind = "string" THEN "text/plain"
                     ELSE "application/json",
     body |-> [body EXCEPT !.kind = IF body.kind = "buffer" THEN "bytes"
                                    ELSE IF body.kind = "string" THEN "text" ELSE "json"]]

\* a || b of JavaScript on numbers: a unless it is undefined, NaN or 0
JsOr(a, b) == IF IsNum(a) /\ a.n # 0 THEN a ELSE b

\* errorHandler's catch, part_000:76-89
errorHandler(e) ==
    LET e1 == EnoentSupport(e)
    IN  KoaSend(JsOr(e1.statusCode, JsOr(e1.status, JsNum(500))),
                ObjectBody([status |-> e1.status, name |-> e1.name, message |-> e1.message]),
                "undefined")

-----------------------------------------------------------------------------
(* The collaborators: request parser, registry and processor, Buffer Store, *)
(* Image Engine                                                             *)

\* the objects of the Buffer Store
StoreObjects ==
    {[uri |-> "a.jpg", buffer |-> <<255, 216, 255, 224>>, type |-> "image/jpeg"],
     [uri |-> "b.gif", buffer |-> <<71, 73, 70, 56, 57>>, type |-> "image/gif"]}
StoreUris == {o.uri : o \in StoreObjects}
ObjectAt(uri) == CHOOSE o \in StoreObjects : o.uri = uri
NoObject == [uri |-> "", buffer |-> <<>>, type |-> "undefined"]

\* the action groups of a request: the name and the tokens, name first
Group(name, params) == [name |-> name, params |-> params]
ActionGroups ==
    {Group("format", <<"format", "jpg">>), Group("format", <<"format", "webp">>),
     Group("format", <<"format", "bmp">>),
     Group("watermark", <<S_watermark, Tok(S_text, <<"Y","W","I">>)>>),
     Group("watermark", <<S_watermark, Tok(S_image, <<"Y","W","I">>),
                          Tok(S_x, <<"5","0","0","0">>)>>)}

\* parseRequest(path, query): the uri and the groups, or InvalidArgument
parseRequest(req) ==
    IF req.malformed THEN [ok |-> FALSE, uri |-> "", actions |-> <<>>]
    ELSE [ok |-> TRUE, uri |-> req.uri, actions |-> req.actions]

\* a test that takes every request with a group for compound
Compound_AtLeastOne(actions) == Len(actions) >= 1

\* actions.length > 1, index-lambda.ts:17 and part_000:105
Compound(actions) == Len(actions) > 1

\* getProcessor(actions[0]): the processor keyed by the first group's name
getProcessor(group) == group.name

\* the validate of the action a group names
ActionValidate(group) ==
    IF group.name = "format" THEN FormatValidate(group.params).ok
    ELSE WatermarkValidate(group.params).ok

\* whether the action a group names has a pre-fetch hook (beforeNewContext)
ActionHasHook(group) == group.name = "format"

RECURSIVE ReadAllAfterHooks(_, _)
\* the "read all animated frames" flag once every hook has run, in order
ReadAllAfterHooks(actions, flag) ==
    IF actions = <<>> THEN flag
    ELSE ReadAllAfterHooks(Tail(actions),
                           IF ActionHasHook(Head(actions))
                           THEN FormatReadAllFrames(Head(actions).params) ELSE flag)

\* the Image Engine's final buffer and its format: the encoder's, or the source's
Render(image, sourceType) ==
    LET format == IF image.encoder.format # "none" THEN image.encoder.format
                  ELSE IF sourceType = "image/gif" THEN "gif" ELSE "jpeg"
    IN  [data |-> <<image.id, image.composites,
                    IF format = "jpeg" THEN 1 ELSE IF format = "png" THEN 2
                    ELSE IF format = "webp" THEN 3 ELSE 4>>,
         format |-> format]

-----------------------------------------------------------------------------
(* Request handling: the Lambda handler (index-lambda.ts) and the Koa        *)
(* application (part_000)                                                   *)

NoCtx ==
    [image |-> Sharp(0, "none", JsUndef), hasFeatures |-> FALSE, autoWebp |-> FALSE,
     readAll |-> FALSE, nextId |-> 1]
NoResult == [data |-> <<>>, type |-> "undefined"]
NotParsed == [ok |-> FALSE, uri |-> "", actions |-> <<>>]

\* a request: the route it takes, the object and the groups it names (or a
\* processing instruction the parser rejects) and, for POST /images, whether
\* the authorization header matches and what the body holds
Request(route, uri, malformed, actions, auth, body) ==
    [route |-> route, uri |-> uri, malformed |-> malformed, actions |-> actions,
     auth |-> auth, body |-> body]

ReqIdle ==
    /\ entry = "none"
    /\ request = Request("none", "", FALSE, <<>>, FALSE, "none")
    /\ parsed = NotParsed
    /\ pc = "idle"
    /\ selected = "none"
    /\ validated = {}
    /\ hooked = {}
    /\ idx = 0
    /\ fetches = 0
    /\ engine = 0
    /\ imagectx = NoCtx
    /\ fetched = NoObject
    /\ result = NoResult
    /\ err = NoErr
    /\ response = NoResp

\* a request has arrived at one of the two entry points
ReqInit ==
    /\ entry \in {"lambda", "koaGet", "koaPost"}
    /\ \/ /\ \E uri \in StoreUris, n \in 0..MaxGroups : \E l \in [1..n -> ActionGroups] :
                request = Request(IF entry = "koaPost" THEN "images" ELSE "object",
                                  uri, FALSE, l, TRUE, "ok")
       \/ request = Request(IF entry = "koaPost" THEN "images" ELSE "object",
                            "a.jpg", TRUE, <<>>, TRUE, "ok")
       \/ /\ entry # "koaPost"
          /\ request = Request("ping", "", FALSE, <<>>, TRUE, "ok")
       \/ /\ entry = "koaGet"
          /\ request = Request("debug", "", FALSE, <<>>, TRUE, "ok")
       \/ /\ entry = "koaPost"
          /\ \E auth \in BOOLEAN, body \in {"none", "incomplete", "ok"} :
                /\ ~(auth /\ body = "ok")
                /\ request = Request("images", "a.jpg", FALSE,
                                     <<Group("format", <<"format", "jpg">>),
                                       Group("format", <<"format", "webp">>)>>,
                                     auth, body)
    /\ parsed = NotParsed
    /\ pc = "start"
    /\ selected = "none"
    /\ validated = {}
    /\ hooked = {}
    /\ idx = 0
    /\ fetches = 0
    /\ engine = 0
    /\ imagectx = NoCtx
    /\ fetched = NoObject
    /\ result = NoResult
    /\ err = NoErr
    /\ response = NoResp

\* the handler returns a response
Reply(r) ==
    /\ pc' = "done"
    /\ response' = r
    /\ err' = err

\* an error is thrown: the Lambda handler is wrapped by WrapError
\* (index-lambda.ts:8), the Koa routes run under errorHandler (part_000:18)
Raise(e) ==
    /\ pc' = "done"
    /\ err' = e
    /\ response' = IF entry = "lambda" THEN WrapError(e) ELSE errorHandler(e)

\* parseRequest and the test of actions.length, index-lambda.ts:15-18 and
\* part_000:103-106; compoundPc is where a compound request goes on
Dispatch(compoundPc) ==
    LET p == parseRequest(request)
    IN  /\ parsed' = p
        /\ IF ~p.ok THEN Raise(InvalidArgumentErr) /\ UNCHANGED selected
           ELSE IF Compound(p.actions)
                THEN /\ selected' = getProcessor(p.actions[1])
                     /\ pc' = compoundPc
                     /\ UNCHANGED <<err, response>>
                ELSE /\ pc' = "rawfetch"
                     /\ UNCHANGED <<selected, err, response>>

\* handler, index-lambda.ts:8-18, up to its first await
LambdaHandler ==
    /\ entry = "lambda"
    /\ pc = "start"
    /\ IF request.route = "ping"
       THEN /\ Reply(resp(JsNum(200), StringBody("ok"), "undefined"))
            /\ UNCHANGED <<selected, parsed>>
       ELSE Dispatch("fetch")
    /\ UNCHANGED <<wmVars, fmtVars, mkVars, entry, request, validated, hooked, idx, fetches, engine,
                   imagectx, fetched, result>>

\* the GET routes, part_000:45-58, and ossprocess up to its first await
KoaGet ==
    /\ entry = "koaGet"
    /\ pc = "start"
    /\ IF request.route = "ping"
       THEN /\ Reply(KoaSend(JsNum(200), StringBody("ok"), "undefined"))
            /\ UNCHANGED <<selected, parsed>>
       ELSE IF request.route = "debug"
       THEN /\ Reply(KoaSend(JsNum(400), ObjectBody(NoJson), "undefined"))
            /\ UNCHANGED <<selected, parsed>>
       ELSE Dispatch("validate")
    /\ UNCHANGED <<wmVars, fmtVars, mkVars, entry, request, validated, hooked, idx, fetches, engine,
                   imagectx, fetched, result>>

\* POST /images, part_000:21-30: validatePostRequest (part_000:123-157), whose
\* read of the secret may be rejected, then ossprocess up to its first await
KoaPost ==
    /\ entry = "koaPost"
    /\ pc = "start"
    /\ \E secretOk \in BOOLEAN :
          IF ~secretOk THEN Raise(PlainErr) /\ UNCHANGED <<selected, parsed>>
          ELSE IF ~request.auth \/ request.body # "ok"
          THEN Raise(InvalidArgumentErr) /\ UNCHANGED <<selected, parsed>>
          ELSE Dispatch("validate")
    /\ UNCHANGED <<wmVars, fmtVars, mkVars, entry, request, validated, hooked, idx, fetches, engine,
                   imagectx, fetched, result>>

\* newContext, step 1: every action's validate, in order, up to the first that raises
ValidateAll ==
    /\ pc = "validate"
    /\ LET bad == {i \in 1..Len(parsed.actions) : ~ActionValidate(parsed.actions[i])}
       IN  IF bad = {}
           THEN /\ validated' = 1..Len(parsed.actions)
                /\ pc' = "hooks"
                /\ UNCHANGED <<err, response>>
           ELSE /\ validated' = {i \in 1..Len(parsed.actions) : \A j \in bad : i < j}
                /\ Raise(InvalidArgumentErr)
    /\ UNCHANGED <<wmVars, fmtVars, mkVars, entry, request, parsed, selected, hooked, idx, fetches,
                   engine, imagectx, fetched, result>>

\* newContext, step 2: every pre-fetch hook, in order
PreFetchHooks ==
    /\ pc = "hooks"
    /\ hooked' = {i \in 1..Len(parsed.actions) : ActionHasHook(parsed.actions[i])}
    /\ imagectx' = [imagectx EXCEPT !.hasFeatures = TRUE,
                          !.readAll = ReadAllAfterHooks(parsed.actions, FALSE)]
    /\ pc' = "fetch"
    /\ UNCHANGED <<wmVars, fmtVars, mkVars, entry, request, parsed, selected, validated, idx,
                   fetches, engine, fetched, result, err, response>>

\* the source is read and opened: bufferStore.get(uri) and sharp(buffer),
\* index-lambda.ts:19-20; newContext, step 3.  The context the Lambda handler
\* builds has no features; the processor it is handed to may supply them
Fetch ==
    /\ pc = "fetch"
    /\ fetches' = fetches + 1
    /\ \E found \in BOOLEAN, features \in BOOLEAN :
          IF found
          THEN /\ fetched' = ObjectAt(parsed.uri)
               /\ entry # "lambda" => features = imagectx.hasFeatures
               /\ imagectx' = [imagectx EXCEPT !.image = Sharp(0, "source", JsUndef),
                                               !.hasFeatures = features]
               /\ engine' = engine + 1
               /\ idx' = 1
               /\ pc' = "process"
               /\ UNCHANGED <<err, response>>
          ELSE /\ Raise(EnoentErr)
               /\ UNCHANGED <<fetched, imagectx, engine, idx>>
    /\ UNCHANGED <<wmVars, fmtVars, mkVars, entry, request, parsed, selected, validated, hooked, result>>

\* the process of the next action, format.ts:38-63 and 205-214; a watermark
\* that names an image reads it from the Buffer Store (format.ts:244, 293)
ProcessAction ==
    /\ pc = "process"
    /\ LET g == parsed.actions[idx]
           Advance(c, eng, f) ==
               /\ imagectx' = c
               /\ engine' = eng
               /\ fetches' = f
               /\ idx' = idx + 1
               /\ validated' = validated \cup {idx}
               /\ pc' = IF idx = Len(parsed.actions) THEN "encode" ELSE "process"
               /\ UNCHANGED <<err, response>>
           Abort(e, eng, f, val) ==
               /\ Raise(e)
               /\ engine' = eng
               /\ fetches' = f
               /\ validated' = val
               /\ UNCHANGED <<imagectx, idx>>
       IN  IF g.name = "format"
           THEN \E pages \in PagesValues, engineOk \in BOOLEAN :
                   LET r == FormatProcess(imagectx, g.params, pages, engineOk, imagectx.nextId)
                       v == FormatValidate(g.params)
                       eng == IF imagectx.hasFeatures /\ v.ok /\ v.format # "gif"
                              THEN engine + 1 ELSE engine
                   IN  IF r.ok
                       THEN Advance([r.ctx EXCEPT !.nextId = IF r.ctx.image.id = imagectx.nextId
                                                             THEN imagectx.nextId + 1
                                                             ELSE imagectx.nextId],
                                    eng, fetches)
                       ELSE Abort(ErrNamed(r.err), eng, fetches,
                                  IF r.err = "Error" THEN validated \cup {idx} ELSE validated)
           ELSE LET v == WatermarkValidate(g.params)
                IN  IF ~v.ok THEN Abort(InvalidArgumentErr, engine, fetches, validated)
                    ELSE \E auxFound \in BOOLEAN, engineOk \in BOOLEAN :
                            LET f == IF v.opt.image # <<>> THEN fetches + 1 ELSE fetches
                            IN  IF v.opt.image # <<>> /\ ~auxFound
                                THEN Abort(EnoentErr, engine, f, validated \cup {idx})
                                ELSE IF ~engineOk
                                THEN Abort(PlainErr, engine + 1, f, validated \cup {idx})
                                ELSE Advance([imagectx EXCEPT !.image.composites = @ + 1],
                                             engine + 1, f)
    /\ UNCHANGED <<wmVars, fmtVars, mkVars, entry, request, parsed, selected, hooked, fetched, result>>

\* the final buffer and its format, index-lambda.ts:22-24; process(context), last step
Encode ==
    /\ pc = "encode"
    /\ engine' = engine + 1
    /\ \E engineOk \in BOOLEAN :
          IF ~engineOk THEN Raise(PlainErr) /\ UNCHANGED result
          ELSE LET out == Render(imagectx.image, fetched.type)
               IN  IF entry = "lambda"
                   THEN /\ Reply(resp(JsNum(200), BufferBody(out.data), out.format))
                        /\ UNCHANGED result
                   ELSE /\ result' = [data |-> out.data, type |-> out.format]
                        /\ IF entry = "koaGet"
                           THEN Reply(KoaSend(JsNum(200), BufferBody(out.data), out.format))
                           ELSE pc' = "put" /\ UNCHANGED <<err, response>>
    /\ UNCHANGED <<wmVars, fmtVars, mkVars, entry, request, parsed, selected, validated, hooked, idx,
                   fetches, imagectx, fetched>>

\* a request that is not compound: bufferStore.get(uri, bypass),
\* index-lambda.ts:26-28, and bs.get(uri, beforeGetFn), part_000:110-111.  The
\* store may call the function it is handed before it reads, and the object
\* may be missing
RawFetch ==
    /\ pc = "rawfetch"
    /\ \E outcome \in {"ok", "missing", "intercepted"} :
          /\ outcome = "intercepted" => entry \in {"lambda", "koaGet"}
          /\ IF outcome = "intercepted"
             THEN Raise(bypass) /\ UNCHANGED <<fetches, fetched, result>>
             ELSE IF outcome = "missing"
             THEN Raise(EnoentErr) /\ fetches' = fetches + 1 /\ UNCHANGED <<fetched, result>>
             ELSE LET o == ObjectAt(parsed.uri)
                  IN  /\ fetches' = fetches + 1
                      /\ fetched' = o
                      /\ IF entry = "lambda"
                         THEN /\ Reply(resp(JsNum(200), BufferBody(o.buffer), o.type))
                              /\ UNCHANGED result
                         ELSE /\ result' = [data |-> o.buffer, type |-> o.type]
                              /\ IF entry = "koaGet"
                                 THEN Reply(KoaSend(JsNum(200), BufferBody(o.buffer), o.type))
                                 ELSE pc' = "put" /\ UNCHANGED <<err, response>>
    /\ UNCHANGED <<wmVars, fmtVars, mkVars, entry, request, parsed, selected, validated, hooked, idx,
                   engine, imagectx>>

\* POST /images once ossprocess has returned, part_000:31-42
PutObject ==
    /\ pc = "put"
    /\ \E putOk \in BOOLEAN :
          IF result.type = "json"
          THEN Reply(KoaSend(JsNum(404), StringBody("Not Found"), "undefined"))
          ELSE IF putOk
          THEN Reply(KoaSend(JsNum(200), StringBody("saved result to s3://target/object"),
                             "undefined"))
          ELSE Raise(PlainErr)
    /\ UNCHANGED <<wmVars, fmtVars, mkVars, entry, request, parsed, selected, validated, hooked,
                   idx, fetches, engine, imagectx, fetched, result>>

Next ==
    \/ LambdaHandler
    \/ KoaGet
    \/ KoaPost
    \/ ValidateAll
    \/ PreFetchHooks
    \/ Fetch
    \/ ProcessAction
    \/ Encode
    \/ RawFetch
    \/ PutObject

\* a request is handled; no action is called on its own
Init == ReqInit /\ WmIdle /\ FmtIdle /\ MkIdle
Spec == Init /\ [][Next]_vars

\* the functions of WatermarkAction are called on their own
InitWm == WmInit /\ FmtIdle /\ ReqIdle /\ MkIdle
SpecWm == InitWm /\ [][WmNext]_vars

\* FormatAction.process is called on its own
InitFmt == FmtInit /\ WmIdle /\ ReqIdle /\ MkIdle
SpecFmt == InitFmt /\ [][FmtNext]_vars

\* the functions of the watermark's rendering are called on their own
InitMk == MkInit /\ WmIdle /\ FmtIdle /\ ReqIdle
SpecMk == InitMk /\ [][MkNext]_vars


-----------------------------------------------------------------------------
(* Properties of WatermarkAction, checked under SpecWm *)

WmDone == wmPc \in {"validated", "mixed"}
HasToken(tok) == \E i \in 1..Len(wmParams) : wmParams[i] = tok
CountKey(k) == Cardinality({i \in 1..Len(wmParams) : wmParams[i] # <<>> /\ PartK(wmParams[i]) = k})
InRange(a, lo, hi) == IsNum(a) /\ lo <= a.n /\ a.n <= hi

LongGravities ==
    {S_north, S_west, S_east, S_south, S_center, S_centre,
     S_southeast, S_southwest, S_northwest, S_northeast}
AliasOf(s) ==
    IF s = S_se THEN S_southeast ELSE IF s = S_sw THEN S_southwest
    ELSE IF s = S_nw THEN S_northwest ELSE S_northeast
Aliases == {S_se, S_sw, S_nw, S_ne}

\* C4: gravityConvert returns each of the ten long-form gravity tokens
\* unchanged, maps se, sw, nw, ne to southeast, southwest, northwest,
\* northeast, and raises InvalidArgument for every other string; and validate
\* accepts 'g_<token>' for every long-form token and alias.
C4_GravityConvertTable ==
    /\ wmPc = "converted" =>
          /\ (gcArg.def /\ gcArg.s \in LongGravities) => (gcOut.ok /\ gcOut.val = gcArg.s)
          /\ (gcArg.def /\ gcArg.s \in Aliases) => (gcOut.ok /\ gcOut.val = AliasOf(gcArg.s))
          /\ ~(gcArg.def /\ gcArg.s \in LongGravities \cup Aliases) => ~gcOut.ok
    /\ \A g \in LongGravities \cup Aliases :
          (WmDone /\ wmParams = <<S_watermark, Tok(S_text, <<"Y","W","I">>), Tok(S_g, g)>>)
              => (wmOut.ok /\ wmOut.opt.g = IF g \in Aliases THEN AliasOf(g) ELSE g)

\* tokens that supply a non-empty text or a non-empty image
NonEmptySource ==
    {Tok(S_text, <<"5","L","2","g","5","a","W","9">>), Tok(S_text, <<"Y","W","I">>),
     Tok(S_image, <<"Y","W","I">>)}

\* C5: validate on a token list that supplies only a non-empty text (or only
\* a non-empty image) returns the defaults t=100, g='southeast', fill=false,
\* rotate=0, size=40, color='000000', auto=true, voffset=0, order=0,
\* interval=0, align=0, x and y unset; and the gravity of every returned
\* options record is a long-form gravity name.
C5_DefaultsWithLongGravity ==
    WmDone =>
        /\ (Len(wmParams) = 2 /\ wmParams[2] \in NonEmptySource) =>
              /\ wmOut.ok
              /\ wmOut.opt.t = JsNum(100)
              /\ wmOut.opt.g = S_southeast
              /\ wmOut.opt.fill = FALSE
              /\ wmOut.opt.rotate = JsNum(0)
              /\ wmOut.opt.size = JsNum(40)
              /\ wmOut.opt.color = Str(S_000000)
              /\ wmOut.opt.auto = TRUE
              /\ wmOut.opt.voffset = JsNum(0)
              /\ wmOut.opt.order = JsNum(0)
              /\ wmOut.opt.interval = JsNum(0)
              /\ wmOut.opt.align = JsNum(0)
              /\ wmOut.opt.x = JsUndef
              /\ wmOut.opt.y = JsUndef
        /\ wmOut.ok => wmOut.opt.g \in LongGravities

\* C6: every options record validate returns has t in [0,100], rotate in
\* [0,360), size in [0,1000], x and y in [0,4096] when present, voffset in
\* [-1000,1000], order in {0,1}, interval in [0,1000], align in {0,1,2} (so a
\* token list that would put a field outside its range makes validate raise).
C6_ReturnedOptionsInRange ==
    (WmDone /\ wmOut.ok) =>
        /\ InRange(wmOut.opt.t, 0, 100)
        /\ InRange(wmOut.opt.rotate, 0, 359)
        /\ InRange(wmOut.opt.size, 0, 1000)
        /\ wmOut.opt.x = JsUndef \/ InRange(wmOut.opt.x, 0, 4096)
        /\ wmOut.opt.y = JsUndef \/ InRange(wmOut.opt.y, 0, 4096)
        /\ InRange(wmOut.opt.voffset, -1000, 1000)
        /\ InRange(wmOut.opt.order, 0, 1)
        /\ InRange(wmOut.opt.interval, 0, 1000)
        /\ InRange(wmOut.opt.align, 0, 2)

\* tokens whose x, y, voffset, interval or size is a number outside its range
OutOfRangeTokens ==
    {Tok(S_x, N_4097), Tok(S_x, <<"5","0","0","0">>), Tok(S_x, N_neg1),
     Tok(S_y, N_4097), Tok(S_y, N_neg1),
     Tok(S_voffset, <<"-","1","0","0","1">>), Tok(S_voffset, N_1001),
     Tok(S_interval, N_1001), Tok(S_interval, N_neg1),
     Tok(S_size, N_1001), Tok(S_size, N_neg1)}

\* C7: validate raises InvalidArgument whenever a supplied x or y is outside
\* [0,4096], a supplied voffset outside [-1000,1000], a supplied interval
\* outside [0,1000] or a supplied size outside [0,1000], wherever the token
\* stands in the list and whatever the other tokens are.
C7_OutOfRangeRaises ==
    (WmDone /\ \E tok \in OutOfRangeTokens : HasToken(tok))
        => (~wmOut.ok /\ wmOut.err = "InvalidArgument")

\* the case of C7: ['watermark','image_<b64>','x_5000'] has been validated
C7_Witness ==
    /\ wmPc = "validated"
    /\ wmParams = <<S_watermark, Tok(S_image, <<"Y","W","I">>), Tok(S_x, <<"5","0","0","0">>)>>
    /\ ~wmOut.ok
    /\ wmOut.about = "x"

\* C8: for a supplied rotate token validate raises InvalidArgument when the
\* value is outside [0,360], stores 0 when it is 360 and the value itself when
\* it is in [0,359]; the rotate of every returned options record is in [0,360).
C8_RotateNormalised ==
    WmDone =>
        /\ (HasToken(Tok(S_rotate, <<"3","6","1">>)) \/ HasToken(Tok(S_rotate, N_neg1)))
              => (~wmOut.ok /\ wmOut.err = "InvalidArgument")
        /\ (wmOut.ok /\ CountKey(S_rotate) = 1) =>
              /\ HasToken(Tok(S_rotate, <<"3","6","0">>)) => wmOut.opt.rotate = JsNum(0)
              /\ HasToken(Tok(S_rotate, <<"3","5","9">>)) => wmOut.opt.rotate = JsNum(359)
              /\ HasToken(Tok(S_rotate, N_0)) => wmOut.opt.rotate = JsNum(0)
        /\ wmOut.ok => InRange(wmOut.opt.rotate, 0, 359)

\* the case of C8: a rotate of 360 was supplied and validate returned
C8_Witness ==
    /\ wmPc = "validated"
    /\ HasToken(Tok(S_rotate, <<"3","6","0">>))
    /\ wmOut.ok
    /\ wmOut.opt.rotate = JsNum(0)

\* the table of the spec, for order in {0,1} and align in {0,1,2}
MixedTable(order, align) ==
    IF order = 0
    THEN IF align = 0 THEN [imgGravity |-> S_northwest, textGravity |-> S_northeast]
         ELSE IF align = 1 THEN [imgGravity |-> S_west, textGravity |-> S_east]
         ELSE [imgGravity |-> S_southwest, textGravity |-> S_southeast]
    ELSE IF align = 0 THEN [imgGravity |-> S_northeast, textGravity |-> S_northwest]
         ELSE IF align = 1 THEN [imgGravity |-> S_east, textGravity |-> S_west]
         ELSE [imgGravity |-> S_southeast, textGravity |-> S_southwest]

EndsWith(s, suffix) ==
    Len(s) >= Len(suffix) /\ SubSeq(s, Len(s) - Len(suffix) + 1, Len(s)) = suffix

\* C9: calculateMixedGravity returns the six-entry table for order in {0,1}
\* and align in {0,1,2}; for every options record validate can return the
\* pair is one of the six entries, and the image and the text are anchored on
\* opposite horizontal sides.
C9_MixedGravityTable ==
    wmPc = "mixed" =>
        /\ (InRange(wmOut.opt.order, 0, 1) /\ InRange(wmOut.opt.align, 0, 2))
              => wmMixed = MixedTable(wmOut.opt.order.n, wmOut.opt.align.n)
        /\ wmMixed \in {MixedTable(o, a) : o \in 0..1, a \in 0..2}
        /\ \/ EndsWith(wmMixed.imgGravity, S_west) /\ EndsWith(wmMixed.textGravity, S_east)
           \/ EndsWith(wmMixed.imgGravity, S_east) /\ EndsWith(wmMixed.textGravity, S_west)

\* the case of C9: text and image with order 1 and align 2 were laid out
C9_Witness ==
    /\ wmPc = "mixed"
    /\ wmOut.opt.text # <<>>
    /\ wmOut.opt.image # <<>>
    /\ wmOut.opt.order = JsNum(1)
    /\ wmOut.opt.align = JsNum(2)
    /\ wmMixed = [imgGravity |-> S_southeast, textGravity |-> S_southwest]

-----------------------------------------------------------------------------
(* Properties of FormatAction, checked under SpecFmt *)

\* the encoder the spec gives each target
EncoderOf(target) ==
    IF target \in {"jpg", "jpeg"} THEN [format |-> "jpeg", effort |-> JsUndef, quality |-> JsUndef]
    ELSE [format |-> target, effort |-> JsNum(2), quality |-> JsNum(80)]

\* C10: Format process with a gif target neither re-opens the context's image
\* handle nor sets an encoder; for any other valid target, when it returns, it
\* has replaced the handle with one pinned to the first frame if and only if
\* the source is animated (pages > 0) and the target is not webp, and has then
\* set the encoder of the target (jpg/jpeg: JPEG, png: PNG effort 2 quality 80,
\* webp: WebP effort 2 quality 80); when it raises the handle is as it was.
C10_FormatProcessEffect ==
    [][(fmtPc = "input" /\ fmtPc' = "done") =>
          LET valid == Len(fmtParams) = 2 /\ fmtParams[2] \in {"jpg", "jpeg", "png", "webp", "gif"}
              animated == IsNum(fmtPages) /\ fmtPages.n > 0
              reopened == fmtCtx'.image.id # fmtCtx.image.id
          IN  /\ (valid /\ fmtParams[2] = "gif") => (fmtOut'.ok /\ fmtCtx'.image = fmtCtx.image)
              /\ ~fmtOut'.ok => fmtCtx'.image = fmtCtx.image
              /\ ~valid => ~fmtOut'.ok
              /\ (valid /\ fmtParams[2] # "gif" /\ fmtOut'.ok) =>
                    /\ reopened <=> (animated /\ fmtParams[2] # "webp")
                    /\ reopened => (fmtCtx'.image.page = JsNum(0) /\ fmtCtx'.image.input = "rendered")
                    /\ ~reopened => [fmtCtx'.image EXCEPT !.encoder = fmtCtx.image.encoder] = fmtCtx.image
                    /\ fmtCtx'.image.encoder = EncoderOf(fmtParams[2])
      ]_vars

\* the case of C10: an animated source was converted to png, on a fresh handle
\* pinned to the first frame
C10_Witness ==
    /\ fmtPc = "done"
    /\ fmtParams = <<"format", "png">>
    /\ fmtPages = JsNum(2)
    /\ fmtOut.ok
    /\ fmtCtx.image.id = 1
    /\ fmtCtx.image.page = JsNum(0)
    /\ fmtCtx.image.encoder.format = "png"

-----------------------------------------------------------------------------
(* Properties of request handling *)

IsCompound == parsed.ok /\ Len(parsed.actions) > 1
IsSingle == parsed.ok /\ Len(parsed.actions) = 1
Hookable == {i \in 1..Len(parsed.actions) : ActionHasHook(parsed.actions[i])}
SomeInvalid == \E i \in 1..Len(parsed.actions) : ~ActionValidate(parsed.actions[i])
IsErrorResponse ==
    /\ IsNum(response.statusCode)
    /\ response.statusCode.n >= 400
    /\ response.body.kind = "json"

\* C1: for a compound request, on both entry points, the Buffer Store is not
\* read and the Image Engine is not called until every action's validate has
\* succeeded and every pre-fetch hook has run; when an action's validate fails
\* the request ends in an error after zero Buffer Store fetches.
C1_ValidateAllFirst ==
    IsCompound =>
       /\ (fetches > 0 \/ engine > 0) =>
             /\ validated = 1..Len(parsed.actions)
             /\ hooked = Hookable
       /\ (SomeInvalid /\ pc = "done") => (IsErrorResponse /\ fetches = 0)

\* the response carries the bytes and the content type of the object the
\* Buffer Store gave, with status 200: base64 text on the Lambda handler, the
\* bytes themselves on the Koa GET route
RawResponse ==
    /\ response.statusCode = JsNum(200)
    /\ response.contentType = fetched.type
    /\ IF entry = "lambda"
       THEN /\ response.isBase64Encoded
            /\ response.body.kind = "base64"
            /\ B64Bytes(B64Prefix(response.body.chars)) = fetched.buffer
       ELSE /\ response.body.kind = "bytes"
            /\ response.body.bytes = fetched.buffer

NoTransform ==
    /\ selected = "none"
    /\ validated = {}
    /\ hooked = {}
    /\ idx = 0
    /\ engine = 0
    /\ pc \in {"rawfetch", "put", "done"}

DispatchedToFirst ==
    IsCompound => (selected = parsed.actions[1].name /\ pc # "rawfetch")

\* C2, as stated: a request with exactly one group never selects a processor
\* and never runs a validate, a hook or a process: it returns the Buffer
\* Store's bytes and content type unchanged with status 200 (what ossprocess
\* returns, on POST /images); a request with more than one group is dispatched
\* to the processor the first group names.
C2_SingleGroupAlwaysRaw ==
    /\ IsSingle => NoTransform
    /\ (IsSingle /\ pc = "done") =>
          /\ fetched = ObjectAt(parsed.uri)
          /\ IF entry = "koaPost"
             THEN result = [data |-> fetched.buffer, type |-> fetched.type]
             ELSE RawResponse
    /\ DispatchedToFirst

\* C2, amended: a request with exactly one group never selects a processor
\* and never runs a validate, a hook, a process or the Image Engine; it reads
\* the Buffer Store at most once; when the store's get returns, the handler
\* answers 200 with the store's bytes and content type unchanged (POST /images
\* gets them unchanged from ossprocess and answers with a text of its own);
\* when the get raises (the object is missing, or the function handed to the
\* store raises 403 before the read) the request ends in the error's response.
\* A request with more than one group is dispatched to the processor the
\* first group names.
C2_SingleGroupRawFetch ==
    /\ IsSingle =>
          /\ NoTransform
          /\ fetches <= 1
    /\ (IsSingle /\ pc \in {"put", "done"} /\ err \notin {EnoentErr, bypass}) =>
          /\ fetches = 1
          /\ fetched = ObjectAt(parsed.uri)
          /\ IF entry = "koaPost"
             THEN result = [data |-> fetched.buffer, type |-> fetched.type]
             ELSE RawResponse /\ err = NoErr
    /\ (IsSingle /\ pc = "done" /\ err \in {EnoentErr, bypass}) =>
          /\ fetched = NoObject
          /\ IsErrorResponse
          /\ response.statusCode = IF err = bypass THEN JsNum(403) ELSE JsNum(404)
          /\ err = bypass => (fetches = 0 /\ entry # "koaPost")
    /\ DispatchedToFirst

\* the case of C2: the Lambda handler has answered a single-group request
\* with the bytes of a.jpg
C2_Witness ==
    /\ entry = "lambda"
    /\ IsSingle
    /\ pc = "done"
    /\ parsed.uri = "a.jpg"
    /\ err = NoErr
    /\ fetches = 1
    /\ response.statusCode = JsNum(200)
    /\ response.contentType = "image/jpeg"
    /\ response.body.chars = <<"/", "9", "j", "/", "4", "A", "=", "=">>

\* C3: every error raised while a request is handled is reported as a body
\* {status, name, message} whose status is the HTTP status of the response,
\* with no image bytes; an error with code ENOENT is reported with status 404
\* and message 'NotFound', an error with neither statusCode nor status with
\* status 500; by WrapError and by errorHandler alike.
C3_ErrorsStructured ==
    (pc = "done" /\ err # NoErr) =>
       /\ response.body.kind = "json"
       /\ response.body.bytes = <<>>
       /\ response.body.chars = <<>>
       /\ IsNum(response.statusCode)
       /\ response.body.json.status = response.statusCode
       /\ response.body.json.name = err.name
       /\ err.code = "ENOENT" =>
             /\ response.statusCode = JsNum(404)
             /\ response.body.json.message = "NotFound"
       /\ (err.code # "ENOENT" /\ err.statusCode = JsUndef /\ err.status = JsUndef) =>
             response.statusCode = JsNum(500)

-----------------------------------------------------------------------------
(* Properties of the watermark's rendering *)

CountCodes(text, lo, hi) == Cardinality({i \in DOMAIN text : lo < text[i] /\ text[i] <= hi})

\* C11: calculateTextSize is monotonically non-decreasing: for a font size in
\* [0,1000], appending a character never decreases the width and leaves the
\* height unchanged, and a larger font size never decreases the width or the
\* height.  The width is the sum of fontSize for each character code above
\* 256, fontSize/2 for each above 97 up to 256 and 0.8*fontSize for each
\* other, plus the margin, rounded; the height is 1.2*fontSize, rounded.
C11_TextSizeMonotone ==
    (mkCall = "textsize" /\ mkPc = "done" /\ IsNum(mkOpt.size)) =>
       LET text == mkOpt.text
           f == mkOpt.size.n
           wide == CountCodes(text, 256, 1114111)
           half == CountCodes(text, 97, 256)
           other == CountCodes(text, -1, 97)
       IN  /\ mkOut.size.width = JsNum((10 * f * wide + 5 * f * half + 8 * f * other
                                        + 10 * 5 + 5) \div 10)
           /\ mkOut.size.height = JsNum((12 * f + 5) \div 10)
           /\ \A c \in CharPool \cup {65, 20320} :
                 LET longer == calculateTextSize(Append(text, c), mkOpt.size)
                 IN  /\ longer.width.n >= mkOut.size.width.n
                     /\ longer.height = mkOut.size.height
           /\ f < MaxFontSize =>
                 LET larger == calculateTextSize(text, JsNum(f + 1))
                 IN  /\ larger.width.n >= mkOut.size.width.n
                     /\ larger.height.n >= mkOut.size.height.n

\* the case of C11: the size of 'a' followed by a wide character at size 40
C11_Witness ==
    /\ mkCall = "textsize"
    /\ mkPc = "done"
    /\ mkOpt.text = <<97, 257>>
    /\ mkOpt.size = JsNum(40)
    /\ mkOut.size = Size(JsNum(77), JsNum(48))

\* C12: when the sizes of both images are known, calculateImgPos gives, for
\* every options record validate can return: for gravity east, west or
\* center, y = round((H - h)/2) + voffset; otherwise a supplied y (0 included)
\* gives H - h - y when the gravity starts with 'south' and y otherwise; for
\* gravity north or south, x = round((W - w)/2); otherwise a supplied x (0
\* included) gives W - w - x when the gravity ends with 'east', the
\* horizontal centre when the gravity is 'center' and x otherwise; a
\* coordinate with no supplied offset and no centering rule stays unresolved.
C12_ImgPosResolved ==
    (mkCall = "imgpos" /\ mkPc = "done" /\ IsNum(mkMeta.width) /\ IsNum(mkMeta.height)
     /\ IsNum(mkMark.width) /\ IsNum(mkMark.height)) =>
       LET W == mkMeta.width.n
           H == mkMeta.height.n
           w == mkMark.width.n
           h == mkMark.height.n
           g == mkOpt.g
           centre == IF (W - w) % 2 = 0 THEN (W - w) \div 2 ELSE (W - w + 1) \div 2
           middle == IF (H - h) % 2 = 0 THEN (H - h) \div 2 ELSE (H - h + 1) \div 2
       IN  /\ mkOut.pos.y =
                 IF g \in {S_east, S_west, S_center} THEN JsNum(middle + mkOpt.voffset.n)
                 ELSE IF mkOpt.y # JsUndef
                      THEN IF Len(g) >= 5 /\ SubSeq(g, 1, 5) = S_south
                           THEN JsNum(H - h - mkOpt.y.n) ELSE mkOpt.y
                      ELSE JsUndef
           /\ mkOut.pos.x =
                 IF g \in {S_north, S_south} THEN JsNum(centre)
                 ELSE IF mkOpt.x # JsUndef
                      THEN IF Len(g) >= 4 /\ SubSeq(g, Len(g) - 3, Len(g)) = S_east
                           THEN JsNum(W - w - mkOpt.x.n)
                           ELSE IF g = S_center THEN JsNum(centre) ELSE mkOpt.x
                      ELSE JsUndef

\* a side of the overlay as composited, given its current size and the
\* target's: shrunk to the target's side less the margin of the variant (at
\* most 10) when it exceeds the target, kept otherwise
FittedSide(side, cur, target) ==
    /\ IsNum(side)
    /\ side.n <= target.n
    /\ cur.n > target.n => side.n >= target.n - 10
    /\ cur.n <= target.n => side = cur

\* C13: when auto is set, the overlay that textWaterMark (rotated or not) or
\* imgWaterMark composites onto the target is no wider and no taller than the
\* target: a side that exceeds the target's is shrunk to the target's less
\* the margin, a side that does not keeps the overlay's current size; for
\* every rotation and every pair of sizes.
C13_AutoOverlayFits ==
    (mkCall \in {"text", "img"} /\ mkPc = "done" /\ mkOpt.auto /\ IsNum(mkOpt.size)
     /\ mkOut.overlay.ok) =>
       /\ FittedSide(mkOut.overlay.width, mkOut.overlay.curWidth, mkMeta.width)
       /\ FittedSide(mkOut.overlay.height, mkOut.overlay.curHeight, mkMeta.height)

\* the opacity t/100 of the options, in hundredths
RequestedOpacity == IF IsNum(mkOpt.t) THEN mkOpt.t ELSE JsNaN

\* C14, as stated: in the text-only watermark the opacity t/100 is baked into
\* the text markup only when no rotation is requested; when rotate > 0 the
\* text is rendered into the markup at opacity 1.
C14_OpacityOnlyUnrotated ==
    (mkCall = "text" /\ mkPc = "done") =>
       IF JsLt(JsNum(0), mkOpt.rotate)
       THEN mkOut.svg.opacity = JsNum(100)
       ELSE mkOut.svg.opacity = RequestedOpacity

\* C14, amended: in the text-only watermark the opacity t/100 is baked into
\* the text markup whether or not rotation is requested; when rotate > 0 the
\* markup, with that opacity, is drawn on the canvas that is then rotated and
\* composited.
C14_OpacityAlwaysBaked ==
    (mkCall = "text" /\ mkPc = "done") =>
       /\ mkOut.svg.opacity = RequestedOpacity
       /\ mkOut.svg.text = mkOpt.text
       /\ mkOut.rotated <=> JsLt(JsNum(0), mkOpt.rotate)

\* the case of C14: a text rotated by 90 degrees, requested at opacity 50/100
C14_Witness ==
    /\ mkCall = "text"
    /\ mkPc = "done"
    /\ mkOpt.rotate = JsNum(90)
    /\ mkOpt.t = JsNum(50)
    /\ mkOut.rotated
    /\ mkOut.svg.opacity = JsNum(50)

=============================================================================
